---- MODULE Spec2Model ----
(***************************************************************************)
(* Network enrichment of URL records                                       *)
(* (scripts/extract_network_whois_features.py): the WHOIS cache and its    *)
(* JSON file, the WHOIS lookup client, the TLS certificate inspector and   *)
(* the column-wise orchestrator main().                                    *)
(*                                                                         *)
(* Floats are modelled by the integers they hold (float(age), -1.0);       *)
(* datetimes by a count of half days plus the tz-aware flag, so that the   *)
(* floor of timedelta.days and the naive/aware arithmetic rule of Python   *)
(* are both visible.  The cache is an insertion-ordered dict: a sequence   *)
(* of key/value pairs.  The cache file is a sequence of JSON tokens.       *)
(***************************************************************************)
EXTENDS Integers, Sequences, FiniteSets, TLC

\* ---------------------------------------------------------------- bounds
NumRows == 2
MaxRuns == 3

\* ------------------------------------------------------- program constants
Sentinel == -1
Now == 100

Procs == {1, 2}

\* ------------------------------------------------------------ input table
\* A URL as urlsplit sees it: the netloc between "//" and the next "/"
\* ("none" when the text has no "//" part), and whether the netloc holds an
\* unbalanced "[" or "]".
Urls ==
  { [text |-> "http://A.test/x", netloc |-> "A.test", bracket |-> FALSE],
    [text |-> "http://b.test", netloc |-> "b.test", bracket |-> FALSE],
    [text |-> "not a url", netloc |-> "none", bracket |-> FALSE],
    [text |-> "http://[::1", netloc |-> "[::1", bracket |-> TRUE] }

Domains == {"", "a.test", "b.test"}

\* str.lower() on the host part
Lower(s) == IF s = "A.test" THEN "a.test" ELSE s

\* urlparse(url): raises ValueError("Invalid IPv6 URL") on an unbalanced
\* bracket; .hostname is None without a netloc, else the lower-cased host.
urlparse(url) ==
  IF url.bracket THEN [raised |-> TRUE, hostname |-> "none"]
  ELSE IF url.netloc = "none" THEN [raised |-> FALSE, hostname |-> "none"]
  ELSE [raised |-> FALSE, hostname |-> Lower(url.netloc)]

\* get_domain(url) = urlparse(url).hostname or ""
get_domain(url) ==
  LET r == urlparse(url)
  IN IF r.raised THEN [raised |-> TRUE, value |-> ""]
     ELSE [raised |-> FALSE,
           value |-> IF r.hostname = "none" THEN "" ELSE r.hostname]

\* ------------------------------------------------------------- datetimes
Dt(t, aware) == [t |-> t, aware |-> aware]

\* datetime.now(timezone.utc): tz-aware
now_utc == Dt(Now, TRUE)

\* a - b on datetimes: TypeError when one is naive and the other aware;
\* timedelta.days is the floor of the difference in days.
DtSub(a, b) ==
  IF a.aware # b.aware THEN [raised |-> TRUE, days |-> 0]
  ELSE [raised |-> FALSE, days |-> (a.t - b.t) \div 2]

\* ------------------------------------------------------------ WHOIS cache
\* dict operations on the insertion-ordered sequence of pairs
Keys(cache) == { cache[i].k : i \in 1..Len(cache) }

InCache(cache, d) == d \in Keys(cache)

CacheGet(cache, d) ==
  LET i == CHOOSE j \in 1..Len(cache) : cache[j].k = d IN cache[i].v

CachePut(cache, d, v) ==
  IF InCache(cache, d)
  THEN [i \in 1..Len(cache) |->
          IF cache[i].k = d THEN [k |-> d, v |-> v] ELSE cache[i]]
  ELSE Append(cache, [k |-> d, v |-> v])

\* --------------------------------------------------------- the cache file
Tok(t, k, v) == [t |-> t, k |-> k, v |-> v]

\* json.dump(cache): "{", one token per item, "}"
json_dump(cache) ==
  <<Tok("{", "", 0)>>
    \o [i \in 1..Len(cache) |-> Tok("pair", cache[i].k, cache[i].v)]
    \o <<Tok("}", "", 0)>>

\* json.load(text): JSONDecodeError unless the text is one whole object
\* (an empty or cut-off text, or text after the closing brace, is an error)
json_load(data) ==
  IF /\ Len(data) >= 2
     /\ data[1].t = "{"
     /\ data[Len(data)].t = "}"
     /\ \A i \in 2..(Len(data) - 1) : data[i].t = "pair"
  THEN [raised |-> FALSE,
        value |-> [i \in 1..(Len(data) - 2) |->
                     [k |-> data[i + 1].k, v |-> data[i + 1].v]]]
  ELSE [raised |-> TRUE, value |-> <<>>]

\* load_cache(path): {} when the file does not exist, else json.load
load_cache(f) ==
  IF f.exists THEN json_load(f.data)
  ELSE [raised |-> FALSE, value |-> <<>>]

\* A save that reads the file back and keeps the entries it finds there
WriteAt0_merge(old, new) ==
  LET o == json_load(old)
      n == json_load(new)
      extra == SelectSeq(o.value, LAMBDA e : e.k \notin Keys(n.value))
  IN IF o.raised \/ n.raised THEN new ELSE json_dump(n.value \o extra)

\* f.write at the writer's own offset 0 over what the file holds by then
WriteAt0(old, new) ==
  IF Len(new) >= Len(old) THEN new
  ELSE new \o SubSeq(old, Len(new) + 1, Len(old))

Prefixes(s) == { SubSeq(s, 1, n) : n \in 0..(Len(s) - 1) }

\* ----------------------------------------------------------- WHOIS client
\* What the WHOIS service does with one request: a network error, a JSON
\* body without WhoisRecord.createdDate, or a body with a creation date.
WhoisOutcomes ==
  { [kind |-> "network_error", created |-> 0],
    [kind |-> "no_created_date", created |-> 0],
    [kind |-> "ok", created |-> Now - 801] }

\* The try block of domain_age_days: requests.get, resp.json, strptime
\* (.replace(tzinfo=utc) makes created_dt aware), (now - created_dt).days.
whois_request(o) ==
  IF o.kind # "ok" THEN [raised |-> TRUE, age |-> 0]
  ELSE LET created_dt == Dt(o.created, TRUE)
           delta == DtSub(now_utc, created_dt)
       IN [raised |-> delta.raised, age |-> delta.days]

\* Variants of domain_age_days with one step of it changed
\* ... the cache is not consulted first
domain_age_days_nocheck(cache, domain, o) ==
  IF domain = ""
  THEN [cache |-> CachePut(cache, domain, Sentinel), ret |-> Sentinel,
        net |-> 0, hit |-> FALSE, save |-> TRUE]
  ELSE LET r == whois_request(o)
           c2 == CachePut(cache, domain,
                          IF r.raised THEN Sentinel ELSE r.age)
       IN [cache |-> c2, ret |-> CacheGet(c2, domain), net |-> 1,
           hit |-> FALSE, save |-> TRUE]

\* ... a sentinel is kept in memory but not written to the file
domain_age_days_nosave(cache, domain, o) ==
  IF InCache(cache, domain)
  THEN [cache |-> cache, ret |-> CacheGet(cache, domain), net |-> 0,
        hit |-> TRUE, save |-> FALSE]
  ELSE IF domain = ""
  THEN [cache |-> CachePut(cache, domain, Sentinel), ret |-> Sentinel,
        net |-> 0, hit |-> FALSE, save |-> FALSE]
  ELSE LET r == whois_request(o)
           c2 == CachePut(cache, domain,
                          IF r.raised THEN Sentinel ELSE r.age)
       IN [cache |-> c2, ret |-> CacheGet(c2, domain), net |-> 1,
           hit |-> FALSE, save |-> ~r.raised]

\* ... a blank domain is not skipped
domain_age_days_noblank(cache, domain, o) ==
  IF InCache(cache, domain)
  THEN [cache |-> cache, ret |-> CacheGet(cache, domain), net |-> 0,
        hit |-> TRUE, save |-> FALSE]
  ELSE LET r == whois_request(o)
           c2 == CachePut(cache, domain,
                          IF r.raised THEN Sentinel ELSE r.age)
       IN [cache |-> c2, ret |-> CacheGet(c2, domain), net |-> 1,
           hit |-> FALSE, save |-> TRUE]

\* ... a failed lookup returns the sentinel without caching it
domain_age_days_noerrcache(cache, domain, o) ==
  IF InCache(cache, domain)
  THEN [cache |-> cache, ret |-> CacheGet(cache, domain), net |-> 0,
        hit |-> TRUE, save |-> FALSE]
  ELSE IF domain = ""
  THEN [cache |-> CachePut(cache, domain, Sentinel), ret |-> Sentinel,
        net |-> 0, hit |-> FALSE, save |-> TRUE]
  ELSE LET r == whois_request(o)
       IN IF r.raised
          THEN [cache |-> cache, ret |-> Sentinel, net |-> 1,
                hit |-> FALSE, save |-> TRUE]
          ELSE [cache |-> CachePut(cache, domain, r.age), ret |-> r.age,
                net |-> 1, hit |-> FALSE, save |-> TRUE]

\* ... a cached sentinel is looked up again
domain_age_days_retry(cache, domain, o) ==
  IF InCache(cache, domain) /\ CacheGet(cache, domain) # Sentinel
  THEN [cache |-> cache, ret |-> CacheGet(cache, domain), net |-> 0,
        hit |-> TRUE, save |-> FALSE]
  ELSE IF domain = ""
  THEN [cache |-> CachePut(cache, domain, Sentinel), ret |-> Sentinel,
        net |-> 0, hit |-> FALSE, save |-> TRUE]
  ELSE LET r == whois_request(o)
           c2 == CachePut(cache, domain,
                          IF r.raised THEN Sentinel ELSE r.age)
       IN [cache |-> c2, ret |-> CacheGet(c2, domain), net |-> 1,
           hit |-> FALSE, save |-> TRUE]

\* domain_age_days(domain) on the cache `cache` when the service would
\* answer `o`: the cache after the call, the value returned, the number of
\* WHOIS requests issued, whether the value came from the cache and whether
\* save_cache is called before returning.
domain_age_days(cache, domain, o) ==
  IF InCache(cache, domain)
  THEN [cache |-> cache, ret |-> CacheGet(cache, domain), net |-> 0,
        hit |-> TRUE, save |-> FALSE]
  ELSE IF domain = ""
  THEN [cache |-> CachePut(cache, domain, Sentinel), ret |-> Sentinel,
        net |-> 0, hit |-> FALSE, save |-> TRUE]
  ELSE LET r == whois_request(o)
           c2 == CachePut(cache, domain,
                          IF r.raised THEN Sentinel ELSE r.age)
       IN [cache |-> c2, ret |-> CacheGet(c2, domain), net |-> 1,
           hit |-> FALSE, save |-> TRUE]

\* -------------------------------------------------------- TLS inspector
\* What the peer does with one connection to domain:443.  A certificate
\* that has expired fails the handshake of the default context.
TlsOutcomes ==
  { [kind |-> "connect_fail", not_after |-> 0],
    [kind |-> "handshake_fail", not_after |-> 0],
    [kind |-> "parse_fail", not_after |-> 0],
    [kind |-> "cert", not_after |-> Now + 1],
    [kind |-> "cert", not_after |-> Now + 61] }

\* An expiry that carries the UTC zone, as not_valid_after_utc does
not_valid_after_aware(cert) == Dt(cert.not_after, TRUE)

\* cert.not_valid_after of the cryptography package: a naive datetime (the
\* aware one is not_valid_after_utc).
not_valid_after(cert) == Dt(cert.not_after, FALSE)

\* tls_cert_days_valid(domain): create_connection, wrap_socket (ValueError
\* for an empty server_hostname), load_der_x509_certificate,
\* not_after - now_utc, float(delta.days); every exception gives -1.0.
tls_cert_days_valid(domain, o) ==
  IF o.kind = "connect_fail" THEN Sentinel
  ELSE IF domain = "" \/ o.kind = "handshake_fail" THEN Sentinel
  ELSE IF o.kind = "parse_fail" THEN Sentinel
  ELSE LET not_after == not_valid_after(o)
           delta == DtSub(not_after, now_utc)
       IN IF delta.raised THEN Sentinel ELSE delta.days

\* has_valid_cert(domain): 1 if days > 0 else 0, on a connection of its own
has_valid_cert(domain, o) ==
  IF tls_cert_days_valid(domain, o) > 0 THEN 1 ELSE 0

\* socket.create_connection((domain, 443)) is called for every domain
tls_connects(domain) == 1

\* ------------------------------------------------------------------ state
VARIABLES
  rows,         \* the url column of INPUT_CSV
  file,         \* CACHE_FILE: [exists, data]
  whois_cache,  \* per process: the module-level dict
  pc,           \* per process: position in the script
  df,           \* per process: the columns main() has computed so far
  calls,        \* per process: per row, what its domain_age_days call did
  obs,          \* per process: the last call made and what it did
  runs,         \* number of processes started so far
  returned,     \* (domain, value) of every domain_age_days call that returned
  lost          \* per process: the domains whose call had returned before
                \* the process loaded the file, and that the file lacked

vars == <<rows, file, whois_cache, pc, df, calls, obs, runs, returned, lost>>

\* What a TLS call met: a certificate with `days` whole days left, or a
\* failure before one could be read
Met(o) ==
  [cert |-> o.kind = "cert",
   days |-> IF o.kind = "cert" THEN (o.not_after - Now) \div 2 ELSE 0]

NoOutcome == [cert |-> FALSE, days |-> 0]

NoObs == [op |-> "none", arg |-> "", ret |-> 0, net |-> 0, hit |-> FALSE,
          seen |-> NoOutcome, done |-> TRUE]

EmptyDf == [domain |-> <<>>, domain_age_days |-> <<>>,
            tls_days_valid |-> <<>>, tls_valid_flag |-> <<>>]

Init ==
  /\ rows \in [1..NumRows -> Urls]
  /\ file = [exists |-> FALSE, data |-> <<>>]
  /\ whois_cache = [p \in Procs |-> <<>>]
  /\ pc = [p \in Procs |-> "idle"]
  /\ df = [p \in Procs |-> EmptyDf]
  /\ calls = [p \in Procs |-> <<>>]
  /\ obs = [p \in Procs |-> NoObs]
  /\ runs = 0
  /\ returned = {}
  /\ lost = [p \in Procs |-> {}]

Stopped(p) == pc[p] \in {"idle", "done", "aborted", "crashed"}

\* The next stage is entered after every row
NextStage_each(col, stage, next) == next

\* Series.apply: the stage goes on until the column has one value per row
NextStage(col, stage, next) == IF Len(col) = NumRows THEN next ELSE stage

\* An uncaught exception (how = "aborted") or a kill (how = "crashed") ends
\* the process; its memory is gone.
Die(p, how, op, d, net) ==
  /\ pc' = [pc EXCEPT ![p] = how]
  /\ lost' = [lost EXCEPT ![p] = {}]
  /\ whois_cache' = [whois_cache EXCEPT ![p] = <<>>]
  /\ df' = [df EXCEPT ![p] = EmptyDf]
  /\ calls' = [calls EXCEPT ![p] = <<>>]
  /\ obs' = [obs EXCEPT ![p] = [NoObs EXCEPT !.op = op, !.arg = d,
                                             !.net = net, !.done = FALSE]]

\* ---------------------------------------------------------------- actions
\* Module load (whois_cache = load_cache(CACHE_FILE)) and the start of
\* main() (pd.read_csv).  A JSONDecodeError is not caught.
LoadCache(p) ==
  /\ Stopped(p)
  /\ runs < MaxRuns
  /\ runs' = runs + 1
  /\ LET r == load_cache(file)
     IN IF r.raised
        THEN Die(p, "aborted", "load_cache", "", 0)
        ELSE /\ whois_cache' = [whois_cache EXCEPT ![p] = r.value]
             /\ lost' = [lost EXCEPT ![p] =
                           { e[1] : e \in returned } \ Keys(r.value)]
             /\ pc' = [pc EXCEPT ![p] = "parse"]
             /\ obs' = [obs EXCEPT ![p] = [NoObs EXCEPT !.op = "load_cache"]]
             /\ df' = [df EXCEPT ![p] = EmptyDf]
             /\ calls' = [calls EXCEPT ![p] = <<>>]
  /\ UNCHANGED <<rows, file, returned>>

\* df["domain"] = df["url"].apply(get_domain), one row.  A ValueError of
\* urlparse is not caught.
ParseRow(p) ==
  /\ pc[p] = "parse"
  /\ LET i == Len(df[p].domain) + 1
         r == get_domain(rows[i])
         col == Append(df[p].domain, r.value)
     IN IF r.raised
        THEN Die(p, "aborted", "get_domain", "", 0)
        ELSE /\ df' = [df EXCEPT ![p].domain = col]
             /\ pc' = [pc EXCEPT ![p] = NextStage(col, "parse", "whois")]
             /\ obs' = [obs EXCEPT ![p] =
                          [NoObs EXCEPT !.op = "get_domain",
                                        !.arg = r.value]]
             /\ UNCHANGED <<whois_cache, calls, lost>>
  /\ UNCHANGED <<rows, file, runs, returned>>

\* The value domain_age_days returns to Series.apply
AgeReturn(p, d, v, net, hit) ==
  /\ df' = [df EXCEPT ![p].domain_age_days = Append(@, v)]
  /\ calls' = [calls EXCEPT ![p] = Append(@, [net |-> net, hit |-> hit])]
  /\ pc' = [pc EXCEPT ![p] =
              NextStage(Append(df[p].domain_age_days, v), "whois", "tls_days")]
  /\ returned' = returned \cup {<<d, v>>}

\* df["domain_age_days"] = df["domain"].apply(domain_age_days), one row, up
\* to open(path, "w") of save_cache, which empties the file or raises
\* OSError (not caught).
AgeRow(p) ==
  /\ pc[p] = "whois"
  /\ \E o \in WhoisOutcomes, openOk \in BOOLEAN :
       LET d == df[p].domain[Len(df[p].domain_age_days) + 1]
           r == domain_age_days(whois_cache[p], d, o)
           ob == [NoObs EXCEPT !.op = "domain_age_days", !.arg = d,
                               !.ret = r.ret, !.net = r.net, !.hit = r.hit,
                               !.done = ~r.save]
       IN IF ~r.save
          THEN /\ openOk
               /\ whois_cache' = [whois_cache EXCEPT ![p] = r.cache]
               /\ obs' = [obs EXCEPT ![p] = ob]
               /\ AgeReturn(p, d, r.ret, r.net, r.hit)
               /\ UNCHANGED <<file, lost>>
          ELSE IF openOk
          THEN /\ whois_cache' = [whois_cache EXCEPT ![p] = r.cache]
               /\ obs' = [obs EXCEPT ![p] = ob]
               /\ file' = [exists |-> TRUE, data |-> <<>>]
               /\ pc' = [pc EXCEPT ![p] = "dump"]
               /\ UNCHANGED <<df, calls, returned, lost>>
          ELSE /\ Die(p, "aborted", "open", d, r.net)
               /\ UNCHANGED <<file, returned>>
  /\ UNCHANGED <<rows, runs>>

\* json.dump(cache, f) and the close of the file; then domain_age_days
\* returns whois_cache[domain], the value put there before the save.
Dump(p) ==
  /\ pc[p] = "dump"
  /\ file' = [exists |-> TRUE,
              data |-> WriteAt0(file.data, json_dump(whois_cache[p]))]
  /\ obs' = [obs EXCEPT ![p].done = TRUE]
  /\ AgeReturn(p, obs[p].arg, obs[p].ret, obs[p].net, obs[p].hit)
  /\ UNCHANGED <<rows, whois_cache, runs, lost>>

\* json.dump raises OSError part way (disk full): not caught
DumpFail(p) ==
  /\ pc[p] = "dump"
  /\ \E part \in Prefixes(json_dump(whois_cache[p])) :
       file' = [exists |-> TRUE, data |-> WriteAt0(file.data, part)]
  /\ Die(p, "aborted", "json.dump", "", 0)
  /\ UNCHANGED <<rows, runs, returned>>

\* The process is killed; a rewrite in progress leaves what it had written
Crash(p) ==
  /\ ~Stopped(p)
  /\ IF pc[p] = "dump"
     THEN \E part \in Prefixes(json_dump(whois_cache[p])) :
            file' = [exists |-> TRUE, data |-> WriteAt0(file.data, part)]
     ELSE file' = file
  /\ Die(p, "crashed", "killed", "", 0)
  /\ UNCHANGED <<rows, runs, returned>>

\* df["tls_days_valid"] = df["domain"].apply(tls_cert_days_valid), one row
TlsDaysRow(p) ==
  /\ pc[p] = "tls_days"
  /\ \E o \in TlsOutcomes :
       LET d == df[p].domain[Len(df[p].tls_days_valid) + 1]
           v == tls_cert_days_valid(d, o)
           col == Append(df[p].tls_days_valid, v)
       IN /\ df' = [df EXCEPT ![p].tls_days_valid = col]
          /\ pc' = [pc EXCEPT ![p] = NextStage(col, "tls_days", "tls_flag")]
          /\ obs' = [obs EXCEPT ![p] =
                       [NoObs EXCEPT !.op = "tls_cert_days_valid", !.arg = d,
                                     !.ret = v, !.net = tls_connects(d),
                                     !.seen = Met(o)]]
  /\ UNCHANGED <<rows, file, whois_cache, calls, runs, returned, lost>>

\* df["tls_valid_flag"] = df["domain"].apply(has_valid_cert), one row
TlsFlagRow(p) ==
  /\ pc[p] = "tls_flag"
  /\ \E o \in TlsOutcomes :
       LET d == df[p].domain[Len(df[p].tls_valid_flag) + 1]
           v == has_valid_cert(d, o)
           col == Append(df[p].tls_valid_flag, v)
       IN /\ df' = [df EXCEPT ![p].tls_valid_flag = col]
          /\ pc' = [pc EXCEPT ![p] = NextStage(col, "tls_flag", "write")]
          /\ obs' = [obs EXCEPT ![p] =
                       [NoObs EXCEPT !.op = "has_valid_cert", !.arg = d,
                                     !.ret = v, !.net = tls_connects(d),
                                     !.seen = Met(o)]]
  /\ UNCHANGED <<rows, file, whois_cache, calls, runs, returned, lost>>

\* os.makedirs and df.to_csv(OUTPUT_CSV); the process ends and its memory
\* is gone
WriteOutput(p) ==
  /\ pc[p] = "write"
  /\ pc' = [pc EXCEPT ![p] = "done"]
  /\ whois_cache' = [whois_cache EXCEPT ![p] = <<>>]
  /\ df' = [df EXCEPT ![p] = EmptyDf]
  /\ calls' = [calls EXCEPT ![p] = <<>>]
  /\ obs' = [obs EXCEPT ![p] = [NoObs EXCEPT !.op = "to_csv"]]
  /\ lost' = [lost EXCEPT ![p] = {}]
  /\ UNCHANGED <<rows, file, runs, returned>>

Step(p) ==
  \/ LoadCache(p)
  \/ ParseRow(p)
  \/ AgeRow(p)
  \/ Dump(p)
  \/ DumpFail(p)
  \/ Crash(p)
  \/ TlsDaysRow(p)
  \/ TlsFlagRow(p)
  \/ WriteOutput(p)

\* One instance of the script at a time
Next == Step(1)

Spec == Init /\ [][Next]_vars

\* Two instances of the script started in the same directory, on the same
\* CACHE_FILE, neither killed nor out of disk; the table lists the hosts
\* a.test and b.test in turn.
StepTwo(p) ==
  \/ LoadCache(p)
  \/ ParseRow(p)
  \/ AgeRow(p)
  \/ Dump(p)
  \/ TlsDaysRow(p)
  \/ TlsFlagRow(p)
  \/ WriteOutput(p)

NextTwo == \E p \in Procs : StepTwo(p)

InitTwo ==
  /\ Init
  /\ \A i \in 1..NumRows :
       get_domain(rows[i]).value = (IF i % 2 = 1 THEN "a.test" ELSE "b.test")

SpecTwo == InitTwo /\ [][NextTwo]_vars

\* ------------------------------------------------------------ properties
Running(p) == ~Stopped(p)

\* the domain of the row the WHOIS stage of p is at
NextDomain(p) == df[p].domain[Len(df[p].domain_age_days) + 1]

\* p's domain_age_days call returns in this step
AgeReturned(p) ==
  Len(df'[p].domain_age_days) = Len(df[p].domain_age_days) + 1

\* p issues a WHOIS request for d in this step
Requested(p, d) ==
  /\ obs'[p] # obs[p]
  /\ obs'[p].op \in {"domain_age_days", "open"}
  /\ obs'[p].net = 1
  /\ obs'[p].arg = d
  /\ ~obs'[p].done

ReturnedDomains == { e[1] : e \in returned }

\* C1: a domain_age_days call for a domain that is a key of the cache
\* returns in that step, issues no WHOIS request and returns the value the
\* cache held for the domain when it was called.
C1_CachedNoNetwork ==
  [][\A p \in Procs :
       ( /\ pc[p] = "whois"
         /\ InCache(whois_cache[p], NextDomain(p))
         /\ <<pc[p], df[p], obs[p]>>' # <<pc[p], df[p], obs[p]>>
         /\ pc'[p] # "crashed" )
       => /\ AgeReturned(p)
          /\ obs'[p].op = "domain_age_days"
          /\ obs'[p].net = 0
          /\ df'[p].domain_age_days[Len(df'[p].domain_age_days)]
               = CacheGet(whois_cache[p], NextDomain(p))]_vars

\* The first row of a run is served from the cache the run loaded
C1_Witness ==
  \E p \in Procs :
    /\ Running(p)
    /\ Len(calls[p]) >= 1
    /\ df[p].domain[1] # ""
    /\ calls[p][1].hit
    /\ calls[p][1].net = 0
    /\ df[p].domain_age_days[1] # Sentinel

\* C2: when a domain_age_days call returns, the domain is in the in-memory
\* cache and the cache file, read back, holds the domain with the value
\* returned (sentinel included); and no run issues a WHOIS request for a
\* domain whose call has returned before, in this run or an earlier one.
C2_FlushedBeforeReturn ==
  [][\A p \in Procs :
       /\ AgeReturned(p) =>
            LET d == NextDomain(p)
                v == df'[p].domain_age_days[Len(df'[p].domain_age_days)]
                r == load_cache(file')
            IN /\ InCache(whois_cache'[p], d)
               /\ CacheGet(whois_cache'[p], d) = v
               /\ ~r.raised
               /\ InCache(r.value, d)
               /\ CacheGet(r.value, d) = v
       /\ \A d \in Domains : Requested(p, d) => d \notin ReturnedDomains]_vars

\* A run whose first row is a domain that failed in an earlier run gets the
\* sentinel from the file
C2_Witness ==
  \E p \in Procs :
    /\ Running(p)
    /\ Len(calls[p]) >= 1
    /\ df[p].domain[1] # ""
    /\ calls[p][1].hit
    /\ df[p].domain_age_days[1] = Sentinel
    /\ <<df[p].domain[1], Sentinel>> \in returned

\* C3: no failure propagates out of the component where it occurs; no run
\* is aborted by an exception.
C3_NoFailureEscapes == \A p \in Procs : pc[p] # "aborted"

TwoCalls(p, i) ==
  /\ i + 1 <= Len(calls[p])
  /\ df[p].domain[i] = df[p].domain[i + 1]
  /\ ~calls[p][i].hit

\* C5 as stated: two successive calls for a domain that was not cached
\* issue exactly one WHOIS request between them and return the same value.
C5_ExactlyOneRequest ==
  \A p \in Procs : \A i \in 1..NumRows :
    TwoCalls(p, i) =>
      /\ calls[p][i].net + calls[p][i + 1].net = 1
      /\ df[p].domain_age_days[i] = df[p].domain_age_days[i + 1]

\* C5 amended: two successive calls for a domain that was not cached issue
\* exactly one WHOIS request between them when the domain is not empty and
\* none when it is empty; the second call is served from the cache and
\* returns the value of the first.
C5_OneRequestUnlessEmpty ==
  \A p \in Procs : \A i \in 1..NumRows :
    TwoCalls(p, i) =>
      /\ calls[p][i].net + calls[p][i + 1].net
           = (IF df[p].domain[i] = "" THEN 0 ELSE 1)
      /\ calls[p][i + 1].hit
      /\ df[p].domain_age_days[i] = df[p].domain_age_days[i + 1]

\* Two calls in a row for a domain whose first lookup failed
C5_Witness ==
  \E p \in Procs : \E i \in 1..NumRows :
    /\ TwoCalls(p, i)
    /\ df[p].domain[i] # ""
    /\ df[p].domain_age_days[i] = Sentinel
    /\ calls[p][i].net = 1

\* C6: with a certificate that has D > 0 whole days left,
\* tls_cert_days_valid returns D and has_valid_cert returns 1; with D <= 0
\* or a failure has_valid_cert returns 0, and a failure gives -1.0 days.
C6_DaysAndFlag ==
  \A p \in Procs :
    /\ obs[p].op = "tls_cert_days_valid" =>
         /\ (obs[p].seen.cert /\ obs[p].seen.days > 0)
              => obs[p].ret = obs[p].seen.days
         /\ ~obs[p].seen.cert => obs[p].ret = Sentinel
    /\ obs[p].op = "has_valid_cert" =>
         obs[p].ret = (IF obs[p].seen.cert /\ obs[p].seen.days > 0
                       THEN 1 ELSE 0)

\* C7 as stated: no step of row i+1 starts before the domain parse, the
\* WHOIS lookup and both TLS calls of row i are complete.
C7_RowAtATime ==
  \A p \in Procs : \A i \in 1..(NumRows - 1) :
    Len(df[p].domain) >= i + 1 => Len(df[p].tls_valid_flag) >= i

\* C7 amended: the run is sequential and stage by stage: get_domain for
\* every row in input order, then domain_age_days for every row, then
\* tls_cert_days_valid for every row, then has_valid_cert for every row; a
\* stage starts only when the stage before it has a value for every row.
C7_StageAtATime ==
  \A p \in Procs :
    /\ (pc[p] \in {"whois", "dump"} \/ Len(df[p].domain_age_days) > 0)
         => Len(df[p].domain) = NumRows
    /\ (pc[p] = "tls_days" \/ Len(df[p].tls_days_valid) > 0)
         => Len(df[p].domain_age_days) = NumRows
    /\ (pc[p] = "tls_flag" \/ Len(df[p].tls_valid_flag) > 0)
         => Len(df[p].tls_days_valid) = NumRows
    /\ pc[p] = "write" => Len(df[p].tls_valid_flag) = NumRows
    /\ \A i \in 1..Len(df[p].domain) :
         df[p].domain[i] = get_domain(rows[i]).value

\* The last stage is under way: every earlier column is full
C7_Witness ==
  \E p \in Procs :
    /\ pc[p] = "tls_flag"
    /\ Len(df[p].tls_valid_flag) >= 1
    /\ Len(df[p].tls_days_valid) = NumRows

\* C8: for a row whose domain is the empty string no component attempts
\* network access: neither domain_age_days nor tls_cert_days_valid nor
\* has_valid_cert.
C8_NoNetworkForEmptyDomain ==
  \A p \in Procs :
    ( /\ obs[p].arg = ""
      /\ obs[p].op \in {"domain_age_days", "tls_cert_days_valid",
                        "has_valid_cert"} )
    => obs[p].net = 0

\* C9: after a kill at any point the cache file loads without error and
\* holds every entry whose domain_age_days call had returned.
C9_CrashSafe ==
  \A p \in Procs :
    pc[p] = "crashed" =>
      LET r == load_cache(file)
      IN /\ ~r.raised
         /\ \A e \in returned :
              InCache(r.value, e[1]) /\ CacheGet(r.value, e[1]) = e[2]

\* C10: with two instances on one cache file the last writer wins: when an
\* instance finishes a rewrite, the file either does not load or holds that
\* instance's in-memory cache and nothing else, so an entry the other
\* instance had persisted and this one never loaded is gone.
C10_LastWriterWins ==
  [][\A p \in Procs :
       (pc[p] = "dump" /\ pc'[p] # "dump") =>
         LET r == load_cache(file')
         IN r.raised \/ r.value = whois_cache[p]]_vars

\* A run loaded a file that lacked a domain persisted before, and issues a
\* WHOIS request for that domain again
C10_Witness ==
  \E p \in Procs :
    /\ obs[p].op = "domain_age_days"
    /\ obs[p].net = 1
    /\ obs[p].arg \in lost[p]

C12_CacheOnlyGrows ==
  [][\A p \in Procs :
       /\ (Running(p) /\ Running(p)') =>
            \A i \in 1..Len(whois_cache[p]) :
              /\ i <= Len(whois_cache'[p])
              /\ whois_cache'[p][i] = whois_cache[p][i]
       /\ Running(p)' =>
            /\ Cardinality(Keys(whois_cache'[p])) = Len(whois_cache'[p])
            /\ \A i \in 1..Len(df'[p].domain_age_days) :
                 InCache(whois_cache'[p], df'[p].domain[i])]_vars

\* A later call met the sentinel an earlier lookup had stored, in a cache
\* of two entries
C12_Witness ==
  \E p \in Procs : \E i \in 1..Len(calls[p]) :
    /\ Running(p)
    /\ Len(whois_cache[p]) >= 2
    /\ calls[p][i].hit
    /\ df[p].domain[i] # ""
    /\ CacheGet(whois_cache[p], df[p].domain[i]) = Sentinel

TypeOK ==
  /\ runs \in 0..MaxRuns
  /\ \A p \in Procs : Keys(whois_cache[p]) \subseteq Domains

====
